---- MODULE Spec2Model ----
(***************************************************************************)
(* The thread / event-loop decoupling layer of waapi-client-python:        *)
(*   - WaapiClient (client/client.py): the synchronous facade used by the  *)
(*     calling threads,                                                    *)
(*   - AutobahnClientDecoupler and _WampClientThread (wamp/ak_autobahn.py):*)
(*     the request queue, the joined signal and the worker thread,         *)
(*   - WaapiClientAutobahn (async_decoupled_client.py): the dispatch loop  *)
(*     that runs on the worker thread's asyncio loop.                      *)
(* The WAMP library (session, transport, server) is the environment: its   *)
(* replies, errors and teardown notifications are nondeterministic.        *)
(***************************************************************************)
EXTENDS Integers, Sequences, FiniteSets, TLC

VARIABLES
    mode,       \* scenario: threading discipline of the application, peer
    debug,      \* Python's __debug__: whether assert statements execute
    wstate,     \* _WampClientThread / its asyncio loop
    joined,     \* AutobahnClientDecoupler._joined_event
    tearing,    \* ApplicationSession.disconnect() has been called
    inbox,      \* coroutines handed to the loop by run_coroutine_threadsafe
    queue,      \* AutobahnClientDecoupler._request_queue
    wpc,        \* position of the onJoin dispatch loop
    cur,        \* the request whose handler is suspended on the protocol
    res,        \* what the protocol answered to that handler
    evt,        \* the event the protocol layer is delivering
    calls,      \* invocations of a user callback that are running
    fut,        \* forwarded_future of each calling thread's request
    pc,         \* position of each calling thread
    op,         \* facade method each calling thread is in
    arg,        \* EventHandler argument of that method
    ret,        \* value the method returned
    ctor,       \* outcome of WaapiClient.__init__
    subs,       \* WaapiClient._subscriptions
    token,      \* EventHandler.subscription of each EventHandler
    created,    \* EventHandler objects that have been subscribed once
    live,       \* subscriptions the WAMP session holds
    nEnq,       \* number of requests put on the queue so far
    nDeq,       \* number of requests taken from the queue so far
    nFul        \* number of dequeued requests whose future has been set

vars == <<mode, debug, wstate, joined, tearing, inbox, queue, wpc, cur, res, evt,
          calls, fut,
          pc, op, arg, ret, ctor, subs, token, created, live, nEnq, nDeq, nFul>>

workerVars == <<wstate, joined, tearing, queue, wpc, cur, res, live, nEnq, nDeq, nFul>>
clientVars == <<ctor, subs, token, created>>

-----------------------------------------------------------------------------
(* Bounds *)

NumCallers == 2
MaxRequests == 3
MaxHandles == 2

Callers == 1..NumCallers
Main == 1
Handles == 1..MaxHandles

(* Program constants *)

QueueSize == 32

-----------------------------------------------------------------------------
(* Values that cross the thread boundary *)

None == [tag |-> "None"]
Pending == [tag |-> "pending"]
Bool(b) == [tag |-> "bool", b |-> b]
Mapping(m) == [tag |-> "dict", kw |-> m]
Subscription(t) == [tag |-> "Subscription", t |-> t]
Handler(h) == [tag |-> "EventHandler", h |-> h]
Raised(e) == [tag |-> "raise", e |-> e]

EmptyDict == <<>>
KwResults == {EmptyDict, [version |-> 1]}

Uri == "ak.wwise.core.getInfo"
Topic == "ak.wwise.core.object.created"

NoRequest == [request_type |-> "NONE"]

\* Payloads of the events the server publishes on a subscribed topic.
EventArgs == {<<>>, <<1>>}
EventKwargs == {[x |-> 1]}
Events == [args : EventArgs, kwargs : EventKwargs]

\* Threads: the worker thread, next to the calling threads 1..NumCallers.
WorkerThread == 0

WampRequest(request_type, c, uri, callback, subscription) ==
    [request_type |-> request_type, caller |-> c, uri |-> uri,
     callback |-> callback, subscription |-> subscription, id |-> 0]

DecouplerMethods ==
    {"wait_for_joined", "set_joined", "has_joined", "put_request", "get_request"}

-----------------------------------------------------------------------------
(* Observers *)

is_alive == wstate # "dead"
has_joined == joined
\* (variant: the liveness of the worker thread is not tested)
is_connected_joined_only == has_joined

is_connected == has_joined /\ is_alive
subscriptions == subs

\* (variant: the test of the worker thread is replaced by the joined signal)
do_request_returns_early_joined == ~joined

\* __do_request, line 209
do_request_returns_early == ~is_alive

\* (variant: the membership test is missing)
not_subscribed_skipped(h) == FALSE

\* unsubscribe, line 182
not_subscribed(h) == h \notin subs

\* (variant: the set is left as it is)
subscriptions_clear_skipped == subs

\* disconnect, line 92
subscriptions_clear == {}

InFacade(c) == pc[c] # "idle"

\* (Idle calling threads are interchangeable: the next call is made by the
\* lowest-numbered idle one.)
Begin(c) ==
    /\ ctor = "ok"
    /\ pc[c] = "idle"
    /\ (mode # "threads" => \A d \in Callers : ~InFacade(d))
    /\ \A d \in Callers : d < c => InFacade(d)

\* (MaxRequests bounds the calls, subscribes and unsubscribes of a run; a STOP
\* can always be submitted.)
Submit(request) ==
    /\ request.request_type # "STOP" => nEnq + Len(inbox) < MaxRequests
    /\ inbox' = Append(inbox, request)
    /\ fut' = [fut EXCEPT ![request.caller] = Pending]

Returns(c, o, h, v) ==
    /\ pc' = [pc EXCEPT ![c] = "done"]
    /\ op' = [op EXCEPT ![c] = o]
    /\ arg' = [arg EXCEPT ![c] = h]
    /\ ret' = [ret EXCEPT ![c] = v]

Waits(c, o, h) ==
    /\ pc' = [pc EXCEPT ![c] = "waiting"]
    /\ op' = [op EXCEPT ![c] = o]
    /\ arg' = [arg EXCEPT ![c] = h]
    /\ UNCHANGED ret

\* A calling thread takes the value a method returned before anything else
\* happens (Continue only changes that thread's own position, so it commutes
\* with every other step): a returned value is observed in the state in which
\* the method returned it.
Observed == \A c \in Callers : pc[c] # "done"

\* A handler coroutine resumed by the protocol's reply runs to its end before
\* any other step: between the reply and the end of the handler the worker
\* changes only its own position and the future it fulfils, and a session
\* dropped in between leaves the future as one dropped before the reply does.
\* So does a user callback: it runs on the loop's thread, which does nothing
\* else until the callback has returned.
Resumed == wpc \notin {"replied", "calling"} /\ calls = <<>>

-----------------------------------------------------------------------------
(* Initial state: __connect has started the worker thread and the          *)
(* constructing thread is about to block in wait_for_joined().             *)

InitCommon ==
    /\ debug \in BOOLEAN
    /\ wstate = "connecting"
    /\ joined = FALSE
    /\ tearing = FALSE
    /\ inbox = <<>>
    /\ queue = <<>>
    /\ wpc = "idle"
    /\ cur = NoRequest
    /\ res = Pending
    /\ evt = None
    /\ calls = <<>>
    /\ fut = [c \in Callers |-> Pending]
    /\ pc = [c \in Callers |-> IF c = Main THEN "constructing" ELSE "idle"]
    /\ op = [c \in Callers |-> IF c = Main THEN "__init__" ELSE "none"]
    /\ arg = [c \in Callers |-> 0]
    /\ ret = [c \in Callers |-> None]
    /\ ctor = "pending"
    /\ subs = {}
    /\ token = [h \in Handles |-> 0]
    /\ created = {}
    /\ live = {}
    /\ nEnq = 0
    /\ nDeq = 0
    /\ nFul = 0

\* "serialized": the application serializes its calls on the client;
\* "threads": calling threads use the client concurrently (on an interpreter
\*            that runs assert statements, the default);
\* "graceful": serialized, and the peer never drops the session by itself.
Init == mode = "serialized" /\ InitCommon
InitThreads == mode = "threads" /\ InitCommon /\ debug
InitGraceful == mode = "graceful" /\ InitCommon

-----------------------------------------------------------------------------
(* _WampClientThread.run and the session lifecycle *)

\* The runner connected and the session joined: onJoin sets the joined
\* signal and enters the dispatch loop.
onJoin ==
    /\ Observed /\ Resumed
    /\ wstate = "connecting"
    /\ wstate' = "running"
    /\ joined' = TRUE
    /\ UNCHANGED <<mode, debug, evt, calls, tearing, inbox, queue, wpc, cur,
                   res, fut, pc, op,
                   arg, ret, ctor, subs, token, created, live, nEnq, nDeq, nFul>>

\* The runner raised: the except branch calls self._decoupler.set_connected(),
\* then the thread terminates.
set_connected ==
    IF "set_connected" \in DecouplerMethods THEN TRUE ELSE joined

run_except ==
    /\ Observed /\ Resumed
    /\ wstate = "connecting"
    /\ wstate' = "dead"
    /\ joined' = set_connected
    /\ UNCHANGED <<mode, debug, evt, calls, tearing, inbox, queue, wpc, cur,
                   res, fut, pc, op,
                   arg, ret, ctor, subs, token, created, live, nEnq, nDeq, nFul>>

\* The session was torn down (by the transport closing after disconnect(),
\* or by the peer): the asyncio loop is stopped.
onDisconnect ==
    /\ Observed /\ Resumed
    /\ wstate = "running"
    /\ mode = "graceful" => tearing
    /\ wstate' = "stopped"
    /\ live' = {}
    /\ UNCHANGED <<mode, debug, evt, calls, joined, tearing, inbox, queue,
                   wpc, cur, res, fut,
                   pc, op, arg, ret, ctor, subs, token, created, nEnq, nDeq, nFul>>

\* run_forever returned, the runner closes the loop and run() returns.
run_return ==
    /\ Observed /\ Resumed
    /\ wstate = "stopped"
    /\ wstate' = "dead"
    /\ UNCHANGED <<mode, debug, evt, calls, joined, tearing, inbox, queue,
                   wpc, cur, res, fut,
                   pc, op, arg, ret, ctor, subs, token, created, live, nEnq,
                   nDeq, nFul>>

-----------------------------------------------------------------------------
(* WaapiClient.__init__ / __connect *)

\* wait_for_joined() returned: __connect returns is_alive(), and __init__
\* raises when that is False.
\* (variant: __init__ does not test what __connect returned)
init_outcome_untested == "ok"

init_outcome == IF is_alive THEN "ok" ELSE "CannotConnectToWaapiException"

connect_return ==
    /\ Observed /\ Resumed
    /\ pc[Main] = "constructing"
    /\ has_joined
    /\ ctor' = init_outcome
    /\ pc' = [pc EXCEPT ![Main] = "idle"]
    /\ op' = [op EXCEPT ![Main] = "none"]
    /\ UNCHANGED <<mode, debug, evt, calls, workerVars, inbox, fut, arg, ret,
                   subs, token,
                   created>>

-----------------------------------------------------------------------------
(* WaapiClient: the facade methods, run by the calling threads *)

callerVars == <<pc, op, arg, ret>>

\* __do_request up to the point where the calling thread blocks: returns
\* None at once when the worker thread is dead, otherwise hands the request
\* coroutine to the worker's loop.
call(c, callback) ==
    /\ Observed /\ Resumed
    /\ Begin(c)
    /\ IF do_request_returns_early
       THEN Returns(c, "call", 0, None) /\ UNCHANGED <<inbox, fut>>
       ELSE Submit(WampRequest("CALL", c, Uri, callback, 0)) /\ Waits(c, "call", 0)
    /\ UNCHANGED <<mode, debug, evt, calls, workerVars, clientVars>>

\* The EventHandler is either one the application already holds or a new one.
NewHandler(h) == h \notin created /\ \A g \in Handles \ created : h <= g

subscribe(c, h) ==
    /\ Observed /\ Resumed
    /\ Begin(c)
    /\ h \in created \/ NewHandler(h)
    /\ IF do_request_returns_early
       THEN Returns(c, "subscribe", h, None) /\ UNCHANGED <<inbox, fut>>
       ELSE Submit(WampRequest("SUBSCRIBE", c, Topic, TRUE, 0)) /\ Waits(c, "subscribe", h)
    /\ UNCHANGED <<mode, debug, evt, calls, workerVars, clientVars>>

unsubscribe(c, h) ==
    /\ Observed /\ Resumed
    /\ Begin(c)
    /\ IF not_subscribed(h)
       THEN Returns(c, "unsubscribe", h, None) /\ UNCHANGED <<inbox, fut>>
       ELSE IF do_request_returns_early
            THEN Returns(c, "unsubscribe", h, None) /\ UNCHANGED <<inbox, fut>>
            ELSE /\ Submit(WampRequest("UNSUBSCRIBE", c, "", FALSE, token[h]))
                 /\ Waits(c, "unsubscribe", h)
    /\ UNCHANGED <<mode, debug, evt, calls, workerVars, clientVars>>

\* disconnect, line 88: the is_connected() test.
disconnect(c) ==
    /\ Observed /\ Resumed
    /\ Begin(c)
    /\ IF ~is_connected
       THEN Returns(c, "disconnect", 0, Bool(FALSE))
       ELSE /\ pc' = [pc EXCEPT ![c] = "connected"]
            /\ op' = [op EXCEPT ![c] = "disconnect"]
            /\ arg' = [arg EXCEPT ![c] = 0]
            /\ UNCHANGED ret
    /\ UNCHANGED <<mode, debug, evt, calls, workerVars, clientVars, inbox, fut>>

\* disconnect, line 91: __do_request(STOP).  When the worker thread died
\* since the test above, __do_request returns at once and disconnect goes
\* on to clear the set and join the thread.
disconnect_do_request(c) ==
    /\ Observed /\ Resumed
    /\ pc[c] = "connected"
    /\ IF do_request_returns_early
       THEN /\ subs' = subscriptions_clear
            /\ pc' = [pc EXCEPT ![c] = "joining"]
            /\ UNCHANGED <<inbox, fut>>
       ELSE /\ Submit(WampRequest("STOP", c, "", FALSE, 0))
            /\ pc' = [pc EXCEPT ![c] = "waiting"]
            /\ UNCHANGED subs
    /\ UNCHANGED <<mode, debug, evt, calls, workerVars, ctor, token, created,
                   op, arg, ret>>

\* unsubscribe, line 188: event_handler.subscription = None (0 stands for the
\* absent token)
\* (variant: the token is left in the handle)
unsubscribed_subscription_kept(t) == t

unsubscribed_subscription(t) == 0

\* unsubscribe, line 186: if success
\* (variant: the handle is removed whatever the worker answered)
unsubscribe_success_untested(v) == TRUE

unsubscribe_success(v) == v = Bool(TRUE)

\* __do_request, line 222: the request coroutine ends, and its result reaches
\* the calling thread, only on a loop that is running.
\* (variant: the result reaches the calling thread on a stopped loop too)
loop_delivers_stopped == TRUE

loop_delivers == wstate = "running"

\* The request coroutine finished on the worker's loop: __do_request returns
\* forwarded_future.result() and the facade method runs to its end (or, for
\* disconnect, to the join).  The future, local to __do_request, is gone.
do_request_return(c) ==
    /\ Observed /\ Resumed
    /\ loop_delivers
    /\ pc[c] = "waiting"
    /\ fut[c] # Pending
    /\ LET v == fut[c]
           h == arg[c]
       IN  CASE op[c] = "call" ->
                  /\ Returns(c, "call", h, v)
                  /\ UNCHANGED <<subs, token, created>>
             [] op[c] = "subscribe" ->
                  IF v # None
                  THEN /\ token' = [token EXCEPT ![h] = v.t]
                       /\ subs' = subs \cup {h}
                       /\ created' = created \cup {h}
                       /\ Returns(c, "subscribe", h, Handler(h))
                  ELSE /\ Returns(c, "subscribe", h, None)
                       /\ UNCHANGED <<subs, token, created>>
             [] op[c] = "unsubscribe" ->
                  IF unsubscribe_success(v)
                  THEN IF h \in subs
                       THEN /\ subs' = subs \ {h}
                            /\ token' = [token EXCEPT
                                          ![h] = unsubscribed_subscription(@)]
                            /\ Returns(c, "unsubscribe", h, v)
                            /\ UNCHANGED created
                       ELSE /\ Returns(c, "unsubscribe", h, Raised("KeyError"))
                            /\ UNCHANGED <<subs, token, created>>
                  ELSE /\ Returns(c, "unsubscribe", h, v)
                       /\ UNCHANGED <<subs, token, created>>
             [] op[c] = "disconnect" ->
                  /\ subs' = subscriptions_clear
                  /\ pc' = [pc EXCEPT ![c] = "joining"]
                  /\ UNCHANGED <<op, arg, ret, token, created>>
    /\ fut' = [fut EXCEPT ![c] = Pending]
    /\ UNCHANGED <<mode, debug, evt, calls, workerVars, ctor, inbox>>

\* disconnect, lines 95-101: the join completes once the worker thread has
\* terminated.
disconnect_join(c) ==
    /\ Observed /\ Resumed
    /\ pc[c] = "joining"
    /\ ~is_alive
    /\ Returns(c, "disconnect", 0, Bool(TRUE))
    /\ UNCHANGED <<mode, debug, evt, calls, workerVars, clientVars, inbox, fut>>

\* The calling thread took the returned value and is ready for its next call.
Continue(c) ==
    /\ pc[c] = "done"
    /\ pc' = [pc EXCEPT ![c] = "idle"]
    /\ op' = [op EXCEPT ![c] = "none"]
    /\ arg' = [arg EXCEPT ![c] = 0]
    /\ ret' = [ret EXCEPT ![c] = None]
    /\ UNCHANGED <<mode, debug, evt, calls, workerVars, clientVars, inbox, fut>>

-----------------------------------------------------------------------------
(* WaapiClientAutobahn: the dispatch loop on the worker thread's loop *)

facadeVars == <<pc, op, arg, ret, ctor, subs, token, created>>

\* _async_request, line 218: the request coroutine puts its request on the
\* bounded queue (suspended while the queue is full).
\* (variant: the request is put at the front)
queue_put_front(q, request) == <<request>> \o q

queue_put(q, request) == Append(q, request)

put_request ==
    /\ Observed /\ Resumed
    /\ wstate = "running"
    /\ inbox # <<>>
    /\ Len(queue) < QueueSize
    /\ queue' = queue_put(queue, [Head(inbox) EXCEPT !.id = nEnq + 1])
    /\ inbox' = Tail(inbox)
    /\ nEnq' = nEnq + 1
    /\ UNCHANGED <<mode, debug, evt, calls, wstate, joined, tearing, wpc, cur,
                   res, fut, live,
                   nDeq, nFul, facadeVars>>

\* onJoin, line 83: the request the loop takes from the queue.
get_request == Head(queue)

CanGet ==
    /\ wstate = "running"
    /\ wpc = "idle"
    /\ queue # <<>>

\* request.future.set_result(v) followed by the return to the top of the
\* while loop.
\* (variant: the handler is not left, and sets the future again)
Done_repeating(request, v) ==
    /\ fut' = [fut EXCEPT ![request.caller] = v]
    /\ UNCHANGED <<wpc, cur, res>>
    /\ nFul' = nFul + 1

Done(request, v) ==
    /\ fut' = [fut EXCEPT ![request.caller] = v]
    /\ wpc' = "idle"
    /\ cur' = NoRequest
    /\ res' = Pending
    /\ nFul' = nFul + 1

\* STOP: the handler has no suspension point.
stop_handler ==
    /\ Observed /\ Resumed
    /\ CanGet
    /\ get_request.request_type = "STOP"
    /\ queue' = Tail(queue)
    /\ nDeq' = nDeq + 1
    /\ tearing' = TRUE
    /\ Done(get_request, Bool(TRUE))
    /\ UNCHANGED <<mode, debug, evt, calls, wstate, joined, inbox, live, nEnq,
                   facadeVars>>

\* CALL, SUBSCRIBE, UNSUBSCRIBE: the handler runs up to the yield from on the
\* protocol's future.
onJoin_dispatch ==
    /\ Observed /\ Resumed
    /\ CanGet
    /\ get_request.request_type \in {"CALL", "SUBSCRIBE", "UNSUBSCRIBE"}
    /\ queue' = Tail(queue)
    /\ nDeq' = nDeq + 1
    /\ cur' = get_request
    /\ wpc' = "handling"
    /\ UNCHANGED <<mode, debug, evt, calls, wstate, joined, tearing, inbox,
                   res, fut, live, nEnq,
                   nFul, facadeVars>>

Handling(request_type) ==
    /\ wstate = "running"
    /\ wpc = "handling"
    /\ cur.request_type = request_type

\* What the protocol layer can answer to the suspended handler.  An error
\* (unknown procedure, lost transport, ...) is always possible; a call is
\* answered with or without keyword results; subscribe returns a new subscription; unsubscribe returns
\* nothing and succeeds only on a subscription the session still holds.
CallResult(kw) == [tag |-> "CallResult", kwresults |-> kw]
CallReplies == {None} \cup {CallResult(kw) : kw \in KwResults}
Errors == {Raised("ApplicationError"), Raised("Exception")}

Answers(request) ==
    Errors \cup
    CASE request.request_type = "CALL" ->
           CallReplies
      [] request.request_type = "SUBSCRIBE" ->
           {Subscription(request.id)}
      [] request.request_type = "UNSUBSCRIBE" ->
           IF request.subscription \in live THEN {None} ELSE {}
      [] OTHER -> {}

AllAnswers ==
    Errors \cup CallReplies \cup {Subscription(i) : i \in 1..MaxRequests}

protocol_reply(answer) ==
    /\ Observed /\ Resumed
    /\ wstate = "running"
    /\ wpc = "handling"
    /\ answer \in Answers(cur)
    /\ res' = answer
    /\ wpc' = "replied"
    /\ live' = IF answer.tag = "Subscription" THEN live \cup {answer.t}
               ELSE IF cur.request_type = "UNSUBSCRIBE" /\ answer = None
                    THEN live \ {cur.subscription}
                    ELSE live
    /\ UNCHANGED <<mode, debug, evt, calls, wstate, joined, tearing, inbox,
                   queue, cur, fut,
                   nEnq, nDeq, nFul, facadeVars>>

Replied(request_type) ==
    /\ wstate = "running"
    /\ wpc = "replied"
    /\ cur.request_type = request_type

\* _WampCallbackHandler.__init__: assert callable(callback)
WampCallbackHandler_raises(callback) == debug /\ ~callback

\* call_handler, line 46
kwresults(r) == IF r # None THEN r.kwresults ELSE EmptyDict

\* The value call_handler leaves in the future.  An exception (raised by the
\* protocol's call or by the handler itself) ends in onJoin's except branch,
\* line 102, which sets the future to None.
\* (variant: the exception is handed to the caller instead of None)
call_handler_result_reraise(r, callback) ==
    IF r.tag = "raise" THEN r
    ELSE IF WampCallbackHandler_raises(callback) THEN Raised("AssertionError")
    ELSE Mapping(kwresults(r))

call_handler_result(r, callback) ==
    IF r.tag = "raise" \/ WampCallbackHandler_raises(callback)
    THEN None
    ELSE Mapping(kwresults(r))

\* _WampCallbackHandler.__call__(*args, **kwargs), lines 124-126: the calls it
\* makes to the wrapped callback.  Positional arguments are not forwarded.
\* (variant: the positional arguments are forwarded too)
WampCallbackHandler_call_forwarding(callback, args, kwargs) ==
    IF callback THEN <<[args |-> args, kwargs |-> kwargs]>> ELSE <<>>

WampCallbackHandler_call(callback, args, kwargs) ==
    IF callback THEN <<[args |-> <<>>, kwargs |-> kwargs]>> ELSE <<>>

\* The invocations s, made by the code that runs on thread t.
RunOn(t, s) ==
    [i \in DOMAIN s |-> [thread |-> t, args |-> s[i].args, kwargs |-> s[i].kwargs]]

\* call_handler, lines 47-48: reached when the protocol's call returned and
\* the wrapper was constructed; callback(result) passes the result mapping
\* as the one positional argument.
call_handler_invokes(r, callback) ==
    r.tag # "raise" /\ ~WampCallbackHandler_raises(callback) /\ callback

call_handler_callback ==
    /\ Observed
    /\ Replied("CALL")
    /\ call_handler_invokes(res, cur.callback)
    /\ calls = <<>>
    /\ wpc' = "calling"
    /\ calls' = RunOn(WorkerThread,
                      WampCallbackHandler_call(cur.callback,
                                               <<Mapping(kwresults(res))>>,
                                               EmptyDict))
    /\ UNCHANGED <<mode, debug, evt, wstate, joined, tearing, inbox, queue, cur,
                   res, fut, live, nEnq, nDeq, nFul, facadeVars>>

\* call_handler, line 49, or onJoin's except branch: the user callback, when
\* there is one, has returned or has raised.
call_handler(raised) ==
    /\ Observed
    /\ \/ Replied("CALL") /\ ~call_handler_invokes(res, cur.callback) /\ ~raised
       \/ wstate = "running" /\ wpc = "calling"
    /\ Done(cur, IF raised THEN None ELSE call_handler_result(res, cur.callback))
    /\ calls' = <<>>
    /\ UNCHANGED <<mode, debug, evt, wstate, joined, tearing, inbox, queue,
                   live,
                   nEnq, nDeq, facadeVars>>

\* subscribe_handler: the future gets the protocol's subscription; an
\* exception ends in onJoin's except branch.
\* (variant: the subscription is never handed over)
subscribe_handler_result_dropped(r) == None

subscribe_handler_result(r) == IF r.tag = "raise" THEN None ELSE r

subscribe_handler ==
    /\ Observed
    /\ Replied("SUBSCRIBE")
    /\ Done(cur, subscribe_handler_result(res))
    /\ UNCHANGED <<mode, debug, evt, calls, wstate, joined, tearing, inbox,
                   queue, live,
                   nEnq, nDeq, facadeVars>>

\* unsubscribe_handler: True when unsubscribe() returned, False on
\* ApplicationError and on any other exception.
\* (variant: the two outcomes are swapped)
unsubscribe_handler_result_swapped(r) == Bool(r.tag = "raise")

unsubscribe_handler_result(r) == Bool(r.tag # "raise")

unsubscribe_handler ==
    /\ Observed
    /\ Replied("UNSUBSCRIBE")
    /\ Done(cur, unsubscribe_handler_result(res))
    /\ UNCHANGED <<mode, debug, evt, calls, wstate, joined, tearing, inbox,
                   queue, live,
                   nEnq, nDeq, facadeVars>>

-----------------------------------------------------------------------------
(* Events published on a subscribed topic *)

\* The session dispatches an event of a subscription it holds to the handler
\* registered by subscribe_handler, the _WampCallbackHandler around
\* EventHandler.on_event, which hands what it receives to the user callback.
on_event(t, e) ==
    /\ Observed /\ Resumed
    /\ wstate = "running"
    /\ t \in live
    /\ evt' = [subscription |-> t, args |-> e.args, kwargs |-> e.kwargs]
    /\ calls' = RunOn(WorkerThread, WampCallbackHandler_call(TRUE, e.args, e.kwargs))
    /\ UNCHANGED <<mode, debug, wstate, joined, tearing, inbox, queue, wpc,
                   cur, res,
                   fut, live, nEnq, nDeq, nFul, facadeVars>>

\* The user callback returned (an exception it raises is logged by the
\* session and goes no further).
on_event_return ==
    /\ Observed
    /\ evt # None
    /\ evt' = None
    /\ calls' = <<>>
    /\ UNCHANGED <<mode, debug, wstate, joined, tearing, inbox, queue, wpc,
                   cur, res,
                   fut, live, nEnq, nDeq, nFul, facadeVars>>

-----------------------------------------------------------------------------

Next ==
    \/ onJoin
    \/ run_except
    \/ onDisconnect
    \/ run_return
    \/ connect_return
    \/ \E c \in Callers, callback \in BOOLEAN : call(c, callback)
    \/ \E c \in Callers, h \in Handles : subscribe(c, h)
    \/ \E c \in Callers, h \in Handles : unsubscribe(c, h)
    \/ \E c \in Callers : disconnect(c)
    \/ \E c \in Callers : disconnect_do_request(c)
    \/ \E c \in Callers : do_request_return(c)
    \/ \E c \in Callers : disconnect_join(c)
    \/ \E c \in Callers : Continue(c)
    \/ put_request
    \/ stop_handler
    \/ onJoin_dispatch
    \/ \E answer \in AllAnswers : protocol_reply(answer)
    \/ call_handler_callback
    \/ \E raised \in BOOLEAN : call_handler(raised)
    \/ subscribe_handler
    \/ unsubscribe_handler
    \/ \E t \in 1..MaxRequests, e \in Events : on_event(t, e)
    \/ on_event_return

Spec == Init /\ [][Next]_vars
SpecThreads == InitThreads /\ [][Next]_vars

\* Scheduling: a running asyncio loop runs every callback that is ready, the
\* protocol answers every request it was sent, a transport that was asked to
\* close ends in onDisconnect, a thread whose run() has nothing left to do
\* terminates, and a calling thread that is not blocked goes on.  The steps
\* that Observed and Resumed hold back while a returned value is taken or a
\* callback runs are taken if they are enabled again and again: neither the
\* calling threads nor a stream of events keep the loop from its next
\* callback or the worker thread from terminating.
ThreadFairness ==
    /\ SF_vars(run_return)
    /\ \A c \in Callers : WF_vars(Continue(c))

Fairness ==
    /\ ThreadFairness
    /\ SF_vars(put_request)
    /\ SF_vars(stop_handler)
    /\ SF_vars(onJoin_dispatch)
    /\ SF_vars(\E answer \in AllAnswers : protocol_reply(answer))
    /\ WF_vars(call_handler_callback)
    /\ WF_vars(\E raised \in BOOLEAN : call_handler(raised))
    /\ WF_vars(on_event_return)
    /\ WF_vars(subscribe_handler)
    /\ WF_vars(unsubscribe_handler)
    /\ SF_vars(tearing /\ onDisconnect)
    /\ \A c \in Callers : SF_vars(do_request_return(c))
    /\ \A c \in Callers : SF_vars(disconnect_do_request(c))
    /\ \A c \in Callers : SF_vars(disconnect_join(c))

FairSpec == InitGraceful /\ [][Next]_vars /\ Fairness

\* The session may be dropped by the peer at any time; only the threads'
\* progress is assumed.
FairPeerSpec == Init /\ [][Next]_vars /\ ThreadFairness

-----------------------------------------------------------------------------
(* Properties *)

\* The step in which the suspended CALL handler resumes and finishes.
CallHandlerStep == wstate = "running" /\ wpc = "replied" /\ wpc' = "idle"
                   /\ cur.request_type = "CALL"

\* The step in which __do_request returns the future's value to a caller
\* blocked in method o.
ReturnStep(c, o) == pc[c] = "waiting" /\ op[c] = o /\ pc'[c] = "done"

\* C1: a call on a connected client whose RPC is answered by the protocol
\* returns the mapping of the reply's keyword results (the empty mapping when
\* the reply carries none), never None, with or without a callback.
CallReturnsReplyMapping ==
    [][ /\ (CallHandlerStep /\ res.tag # "raise") =>
               fut'[cur.caller] = Mapping(kwresults(res))
        /\ \A c \in Callers : ReturnStep(c, "call") => ret'[c] = fut[c]
      ]_vars

\* C2: when the protocol's call fails, or the CALL handler raises, the future
\* is set to None, the loop stays running and ready to take the next request,
\* the caller gets None (no exception) and the client stays connected.
CallFailureReturnsNone ==
    [][ /\ (CallHandlerStep /\ (res.tag = "raise" \/ (debug /\ ~cur.callback))) =>
               /\ fut'[cur.caller] = None
               /\ wstate' = "running" /\ joined'
               /\ wpc' = "idle"
               /\ queue' = queue
               /\ (queue' # <<>> => CanGet')
        /\ \A c \in Callers :
               (ReturnStep(c, "call") /\ fut[c] = None) =>
                   /\ ret'[c] = None
                   /\ wstate' = "running" /\ joined'
      ]_vars

CallFailureReturned ==
    \E c \in Callers :
        /\ pc[c] = "done" /\ op[c] = "call" /\ ret[c] = None
        /\ ~debug /\ nFul > 0
        /\ wstate = "running" /\ joined /\ wpc = "idle"

\* C3: when the connection attempt fails (the worker thread terminates while
\* the constructor is blocked in wait_for_joined) the joined signal is set,
\* so the constructor is released.
ConnectFailureSetsJoined ==
    (wstate = "dead" /\ pc[Main] = "constructing") => joined

\* A dead worker thread stays dead: the client never reconnects.
DeadStaysDead == [][wstate = "dead" => wstate' = "dead"]_vars

\* disconnect() returns True only after the worker thread has terminated.
DisconnectedIsDead ==
    \A c \in Callers :
        (pc[c] = "done" /\ op[c] = "disconnect" /\ ret[c] = Bool(TRUE)) =>
            wstate = "dead"

\* The step in which a calling thread enters facade method o.
EnterStep(c, o) == pc[c] = "idle" /\ pc'[c] # "idle" /\ op'[c] = o

\* C4: once disconnect() has returned True, or once the worker thread has
\* died, a call, subscribe or unsubscribe returns None or False at once,
\* without handing a request to the worker and without blocking.
DeadClientReturnsAtOnce ==
    /\ []DisconnectedIsDead
    /\ DeadStaysDead
    /\ [][ \A c \in Callers :
             (wstate = "dead" /\ \E o \in {"call", "subscribe", "unsubscribe"} :
                                    EnterStep(c, o)) =>
                 /\ pc'[c] = "done"
                 /\ ret'[c] \in {None, Bool(FALSE)}
                 /\ inbox' = inbox
                 /\ queue' = queue
         ]_vars

DeadClientReturned ==
    \E c \in Callers :
        /\ pc[c] = "done" /\ op[c] = "subscribe" /\ ret[c] = None
        /\ wstate = "dead" /\ nEnq = 0 /\ inbox = <<>>

\* C5: an unsubscribe of a subscribed handle whose protocol unsubscribe
\* succeeds returns True, and afterwards the handle is not in subscriptions()
\* and its subscription token is cleared.
UnsubscribeRemovesHandle ==
    [][ /\ (wstate = "running" /\ wpc = "replied" /\ wpc' = "idle"
            /\ cur.request_type = "UNSUBSCRIBE" /\ res = None) =>
               fut'[cur.caller] = Bool(TRUE)
        /\ \A c \in Callers :
               (ReturnStep(c, "unsubscribe") /\ fut[c] = Bool(TRUE)) =>
                   /\ ret'[c] = Bool(TRUE)
                   /\ arg[c] \notin subs'
                   /\ token'[arg[c]] = 0
      ]_vars

UnsubscribeReturnedTrue ==
    \E c \in Callers :
        /\ pc[c] = "done" /\ op[c] = "unsubscribe" /\ ret[c] = Bool(TRUE)
        /\ arg[c] \in created /\ arg[c] \notin subs

\* C6: unsubscribe of a handle that is not in the subscription set returns
\* None at once, hands no request to the worker and leaves the set and the
\* handles' tokens unchanged.
UnsubscribeUnknownIsNoOp ==
    [][ \A c \in Callers :
          (EnterStep(c, "unsubscribe") /\ arg'[c] \notin subs) =>
              /\ pc'[c] = "done"
              /\ ret'[c] = None
              /\ inbox' = inbox
              /\ queue' = queue
              /\ subs' = subs
              /\ token' = token
      ]_vars

UnsubscribeUnknownReturned ==
    \E c \in Callers :
        /\ pc[c] = "done" /\ op[c] = "unsubscribe" /\ ret[c] = None
        /\ arg[c] \notin subs /\ wstate = "running"

\* C7: after a disconnect() has returned True, every further disconnect()
\* returns False, hands no STOP request to the worker and changes no state of
\* the client.
DisconnectIdempotent ==
    /\ []DisconnectedIsDead
    /\ DeadStaysDead
    /\ [][ \A c \in Callers :
             (wstate = "dead" /\ EnterStep(c, "disconnect")) =>
                 /\ pc'[c] = "done"
                 /\ ret'[c] = Bool(FALSE)
                 /\ UNCHANGED <<inbox, queue, fut, subs, token, created, ctor,
                                wstate, joined, tearing, live>>
         ]_vars

SecondDisconnectReturned ==
    \E c \in Callers :
        /\ pc[c] = "done" /\ op[c] = "disconnect" /\ ret[c] = Bool(FALSE)
        /\ tearing /\ wstate = "dead"

\* A calling thread is inside disconnect(), past the is_connected() test.
InDisconnect(c) ==
    op[c] = "disconnect" /\ pc[c] \in {"connected", "waiting", "joining"}

DisconnectReturnedTrue(c) ==
    pc[c] = "done" /\ op[c] = "disconnect" /\ ret[c] = Bool(TRUE)

\* After disconnect() returned True the set is empty and is_connected() is
\* False; while disconnect() runs, the only request handed to the worker is a
\* STOP, and never a second one.
DisconnectClears ==
    /\ [](\A c \in Callers :
            DisconnectReturnedTrue(c) => subs = {} /\ ~(joined /\ wstate # "dead"))
    /\ [][ \A c \in Callers :
             (InDisconnect(c) /\ Len(inbox') > Len(inbox)) =>
                 /\ pc[c] = "connected"
                 /\ inbox' = Append(inbox, WampRequest("STOP", c, "", FALSE, 0))
         ]_vars

\* C9 (as claimed): ... and exactly one request, the STOP, is handed to the
\* worker by every disconnect() that got past the is_connected() test.
DisconnectClearsWithOneStop ==
    /\ DisconnectClears
    /\ [][ \A c \in Callers :
             (pc[c] = "connected" /\ pc'[c] # "connected") =>
                 Len(inbox') = Len(inbox) + 1
         ]_vars

\* C9 (amended): ... and at most one request, the STOP, is handed to the
\* worker: exactly one when the worker thread is still alive at
\* __do_request's test, none when it terminated since the is_connected() test.
DisconnectClearsWithAtMostOneStop ==
    /\ DisconnectClears
    /\ [][ \A c \in Callers :
             (pc[c] = "connected" /\ pc'[c] # "connected") =>
                 Len(inbox') = Len(inbox) + (IF wstate = "dead" THEN 0 ELSE 1)
         ]_vars

DisconnectDroppedSubscription ==
    \E c \in Callers, h \in Handles :
        /\ DisconnectReturnedTrue(c)
        /\ h \in created /\ token[h] # 0 /\ h \notin subs
        /\ tearing

\* C10: the worker takes a request from the queue only when the handler of
\* the previous one has finished, takes the requests in the order they were
\* put on the queue, and sets their futures in that same order.
LastOfQueue == IF wpc = "idle" THEN Head(queue) ELSE cur

FifoNoOverlap ==
    /\ [](\A i \in 1..Len(queue) : queue[i].id = nDeq + i)
    /\ [](wpc # "idle" => cur.id = nDeq /\ nFul + 1 = nDeq)
    /\ [](wpc = "idle" => nFul = nDeq)
    /\ [][ nDeq' # nDeq =>
             /\ wpc = "idle" /\ nFul = nDeq
             /\ nDeq' = nDeq + 1
             /\ Head(queue).id = nDeq'
             /\ queue' = Tail(queue)
         ]_vars
    /\ [][ nFul' # nFul =>
             /\ nFul' = nFul + 1
             /\ LastOfQueue.id = nFul'
             /\ fut[LastOfQueue.caller] = Pending
             /\ fut'[LastOfQueue.caller] # Pending
         ]_vars

ConcurrentlyQueued ==
    /\ Len(queue) = 2
    /\ queue[1].caller # queue[2].caller
    /\ nFul > 0

\* C8: a disconnect() that found the client connected terminates and returns
\* True, whatever the order of the scheduler's stop and the delivery of the
\* STOP request's result to the calling thread.
DisconnectTerminates ==
    \A c \in Callers : (pc[c] = "connected") ~> DisconnectReturnedTrue(c)

\* C11: while the session delivers an event of a subscription it holds, the
\* user callback has been invoked exactly once, with the event's keyword
\* payload and no positional argument, on the worker thread; and a user
\* callback only ever runs for an event or inside the CALL handler.
EventInvokesCallbackOnce ==
    /\ evt # None =>
          /\ evt.subscription \in live
          /\ calls = <<[thread |-> WorkerThread, args |-> <<>>,
                        kwargs |-> evt.kwargs]>>
    /\ calls # <<>> => (evt # None \/ wpc = "calling")
    /\ \A i \in DOMAIN calls : calls[i].thread \notin Callers

EventWithPositionalPayloadDelivered ==
    /\ evt # None /\ evt.args # <<>>
    /\ Len(calls) = 1
    /\ \E h \in subs : token[h] = evt.subscription

\* C19 (as claimed): while the user callback of an answered CALL runs, it has
\* been invoked exactly once, it was passed the result mapping, and the
\* request's future is not fulfilled yet.
CallbackGetsResultMapping ==
    wpc = "calling" =>
        /\ Len(calls) = 1
        /\ \/ calls[1].kwargs = kwresults(res)
           \/ calls[1].args = <<Mapping(kwresults(res))>>
        /\ fut[cur.caller] = Pending

\* The step in which the suspended handler of a request of the given type
\* resumes and finishes.
HandlerStep(request_type) ==
    /\ wstate = "running" /\ wpc = "replied" /\ wpc' = "idle"
    /\ cur.request_type = request_type

\* C12: when the protocol's unsubscribe fails, with an ApplicationError or
\* with any other exception, the future is set to False and the loop goes on;
\* unsubscribe returns False, and the handle stays in subscriptions() with
\* its token.
UnsubscribeFailureReturnsFalse ==
    [][ /\ (HandlerStep("UNSUBSCRIBE") /\ res.tag = "raise") =>
               /\ fut'[cur.caller] = Bool(FALSE)
               /\ wstate' = "running" /\ wpc' = "idle"
               /\ (queue' # <<>> => CanGet')
        /\ \A c \in Callers :
               (ReturnStep(c, "unsubscribe") /\ fut[c] = Bool(FALSE)) =>
                   /\ ret'[c] = Bool(FALSE)
                   /\ arg[c] \in subs'
                   /\ subs' = subs
                   /\ token' = token
      ]_vars

UnsubscribeReturnedFalse ==
    \E c \in Callers :
        /\ pc[c] = "done" /\ op[c] = "unsubscribe" /\ ret[c] = Bool(FALSE)
        /\ arg[c] \in subs /\ token[arg[c]] # 0
        /\ wstate = "running" /\ wpc = "idle"

\* C13: the future of a SUBSCRIBE gets the protocol's subscription when the
\* protocol's subscribe succeeded and None when it raised; subscribe returns
\* the handle, holding that subscription and added to subscriptions(), in
\* the first case, and None, with the set and the tokens unchanged, in the
\* second.
SubscribeReturnsHandleIffSucceeded ==
    [][ /\ HandlerStep("SUBSCRIBE") =>
               fut'[cur.caller] = (IF res.tag = "Subscription" THEN res ELSE None)
        /\ \A c \in Callers :
               ReturnStep(c, "subscribe") =>
                   IF fut[c].tag = "Subscription"
                   THEN /\ ret'[c] = Handler(arg[c])
                        /\ token'[arg[c]] = fut[c].t
                        /\ arg[c] \in subs'
                   ELSE /\ ret'[c] = None
                        /\ subs' = subs
                        /\ token' = token
      ]_vars

SubscribeFailedAfterSuccess ==
    \E c \in Callers :
        /\ pc[c] = "done" /\ op[c] = "subscribe" /\ ret[c] = None
        /\ wstate = "running" /\ nFul = 2
        /\ \E h \in subs : token[h] \in live

\* C14: the constructor returns successfully only on a connected client,
\* the joined signal is never reset, and is_connected() turns False only when
\* the worker thread terminates after the session was torn down (which a
\* disconnect() or the protocol layer starts).
ConnectedUntilTornDown ==
    /\ []((ctor = "ok" /\ wstate = "running") => is_connected)
    /\ [][ /\ (pc[Main] = "constructing" /\ ctor' = "ok") => is_connected'
           /\ joined => joined'
           /\ (ctor = "ok" /\ is_connected /\ ~is_connected') =>
                  wstate = "stopped"
         ]_vars

ConnectedClientServed ==
    /\ ctor = "ok" /\ is_connected /\ wstate = "running"
    /\ nFul = 2 /\ ~tearing

\* C15: a future is fulfilled only while it is pending, only by the step of
\* the worker that ends the handling of its request, and the futures set
\* never outnumber the requests taken from the queue.
FutureSetAtMostOnce ==
    /\ [](nFul <= nDeq)
    /\ [][ /\ \A c \in Callers :
                fut'[c] # fut[c] =>
                    \/ /\ fut[c] = Pending
                       /\ nFul' = nFul + 1
                       /\ wstate = "running"
                       /\ LastOfQueue.caller = c
                       /\ pc[c] = "waiting" /\ pc' = pc
                    \/ /\ fut'[c] = Pending
                       /\ pc'[c] # pc[c]
           /\ nFul' # nFul =>
                /\ nFul' = nFul + 1
                /\ \E c \in Callers : fut[c] = Pending /\ fut'[c] # Pending
         ]_vars

FutureSetByExceptBranch ==
    \E c \in Callers :
        /\ pc[c] = "waiting" /\ op[c] = "call" /\ fut[c] = None
        /\ nFul = 2 /\ nDeq = 2

\* C16 (as claimed): every request taken from the queue gets its future set,
\* and every calling thread blocked on a request is released.
DequeuedIsFulfilledAndReleased ==
    /\ (nDeq > nFul) ~> (nFul = nDeq)
    /\ \A c \in Callers : (pc[c] = "waiting") ~> (pc[c] # "waiting")

\* C17: on a session torn down by the protocol layer the loop is stopped and
\* the worker thread terminates; from then on no request is taken from the
\* queue, no future is set, and a calling thread that waits for its request
\* goes on waiting.
PeerDisconnectLeavesCallersBlocked ==
    /\ (wstate = "stopped") ~> (wstate = "dead")
    /\ DeadStaysDead
    /\ [][ (wstate \in {"stopped", "dead"}) =>
             /\ wstate' \in {"stopped", "dead"}
             /\ nDeq' = nDeq
             /\ nFul' = nFul
             /\ \A c \in Callers :
                    pc[c] = "waiting" => pc'[c] = "waiting" /\ fut'[c] = fut[c]
         ]_vars

CallerBlockedAfterPeerDisconnect ==
    /\ wstate = "dead" /\ ~tearing
    /\ \E c \in Callers : pc[c] = "waiting" /\ fut[c] = Pending
    /\ wpc = "handling"

\* C18 (as claimed): once the STOP handler has terminated the session and
\* set the STOP request's future to True, the loop takes no further request
\* from the queue.
StopIsTerminal ==
    /\ [][ tearing' /\ ~tearing =>
             /\ get_request.request_type = "STOP"
             /\ fut'[get_request.caller] = Bool(TRUE) ]_vars
    /\ [][ tearing => nDeq' = nDeq ]_vars

\* C20 (as claimed): whenever is_connected() is False the subscription set
\* is empty.
NotConnectedHasNoSubscriptions == ~is_connected => subs = {}

\* C21: with the calls on the client serialized, every handle in the
\* subscription set holds a token, and a handle outside the set holds none,
\* unless a disconnect() emptied the set (the worker handled its STOP, or the
\* worker thread was dead).
MembersHoldTokens ==
    /\ \A h \in subs : token[h] # 0
    /\ \A h \in Handles \ subs : token[h] # 0 => (tearing \/ ~is_alive)

MemberAndUnsubscribedHandle ==
    /\ wstate = "running" /\ ~tearing
    /\ \A c \in Callers : pc[c] = "idle"
    /\ \E h \in subs : token[h] \in live
    /\ \E h \in created \ subs : token[h] = 0

\* The client is connected and at rest: no facade method is running and the
\* worker has nothing to do.
AtRest ==
    /\ ctor = "ok" /\ wstate = "running" /\ joined /\ ~tearing
    /\ \A c \in Callers : pc[c] = "idle"
    /\ inbox = <<>> /\ queue = <<>> /\ wpc = "idle"

\* C22 (as claimed): on a connected client at rest, the handles of the set
\* and the subscriptions the session holds correspond one to one, each
\* subscription to the handle that holds its token.
MembersMatchLiveSubscriptions ==
    AtRest =>
        /\ live = {token[h] : h \in subs}
        /\ Cardinality(subs) = Cardinality(live)

====
